---- MODULE Spec2Model ----
(***************************************************************************)
(* Tax-planning simulator: the regime calculators (calculateSimples,       *)
(* calculatePresumido, calculateReal, calculateReform) and the Dashboard's *)
(* useMemo that runs them and selects the best current regime.             *)
(*                                                                         *)
(* Numbers.  The program computes with JavaScript doubles.  The model      *)
(* computes with exact integers:                                           *)
(*   - a monetary amount is an integer number of centavos (Reais(x) is     *)
(*     x reais); the inputs are multiples of R$ 10.000, so that every      *)
(*     product amount * rate the code forms is a whole number of centavos; *)
(*   - a percentage is an integer number of hundredths of a percent        *)
(*     (0.65 in the source is 65, 15.00 is 1500); the income-tax rates     *)
(*     (irpj, irpjAdicional, csll) are whole percents;                     *)
(*   - Pct(v, r) is v * (r / 100) of the source;                           *)
(*   - a quotient a / b is kept as the JavaScript value it yields: NaN,    *)
(*     Infinity, -Infinity, or the finite ratio num/den.                   *)
(***************************************************************************)
EXTENDS Integers, Sequences, FiniteSets, TLC

VARIABLES
    editableData,     \* Dashboard state: the FinancialData the calculators read
    displayLines,     \* Dashboard state: the DRE lines
    activityType,     \* Dashboard state
    presumidoConfig,  \* Dashboard state: TaxRateConfig of Lucro Presumido
    realConfig,       \* Dashboard state: TaxRateConfig of Lucro Real
    reformConfig,     \* Dashboard state: ReformConfig
    results,          \* value of the useMemo "results" (NoResults before it ran)
    pc,               \* "mounted" before the initialization effect ran,
                      \* "input" before the useMemo ran, "done" after
    edits,            \* number of change events handled so far
    originalLines,    \* Dashboard prop: data.originalLines
    taxCategory,      \* Dashboard state: 'ISS' or 'ICMS'
    simId,            \* Dashboard state: the id of the simulation
    simName,          \* Dashboard state: the name typed in the save dialog
    showSaveModal,    \* Dashboard state: the save dialog is open
    saves,            \* the calls of storageService.save of the session
    simulations,      \* the rows of the table "simulations"
    app               \* AppContent state, the route and the requests in flight

vars == <<editableData, displayLines, activityType, presumidoConfig,
          realConfig, reformConfig, results, pc, edits, originalLines,
          taxCategory, simId, simName, showSaveModal, saves, simulations,
          app>>

\* What the calculators, the rate fields and the line editor leave alone.
sessionVars == <<originalLines, taxCategory, simId, simName, showSaveModal,
                 saves, simulations, app>>

----------------------------------------------------------------------------
(* Arithmetic *)

Reais(x) == x * 100

\* v * (r / 100), r in hundredths of a percent; split so that no
\* intermediate product leaves the 32-bit range of the checker.
Pct(v, r) == (v \div 10000) * r + ((v % 10000) * r) \div 10000

Abs(x) == IF x < 0 THEN -x ELSE x

MathMax(a, b) == IF a >= b THEN a ELSE b

\* An optional field (realCreditBase?, reformCreditRate?) is << >> when it is
\* undefined and <<v>> when it holds v.
Undefined == << >>
Some(v) == <<v>>
ValueOf(opt) == opt[1]

NaN == [kind |-> "NaN"]
PosInfinity == [kind |-> "Infinity"]
NegInfinity == [kind |-> "-Infinity"]
Finite(n, d) == [kind |-> "finite", num |-> n, den |-> d]
FiniteZero == Finite(0, 1)

\* (a / b) * 100 of JavaScript.  A finite quotient is kept as the ratio
\* num/den of percent, with the sign carried by num.
PercentOf(a, b) ==
    IF b = 0
    THEN IF a = 0 THEN NaN ELSE IF a > 0 THEN PosInfinity ELSE NegInfinity
    ELSE IF b > 0 THEN Finite(a, b \div 100) ELSE Finite(-a, (-b) \div 100)

----------------------------------------------------------------------------
(* simplesTables *)

SIMPLES_LIMIT == Reais(4800000)

Range(l, a, d) == [limit |-> Reais(l), aliquota |-> a, deducao |-> Reais(d)]

ANEXO_I == [name |-> "Anexo I", ranges |-> <<
    Range(180000, 400, 0), Range(360000, 730, 5940),
    Range(720000, 950, 13860), Range(1800000, 1070, 22500),
    Range(3600000, 1430, 87300), Range(4800000, 1900, 378000) >>]

ANEXO_II == [name |-> "Anexo II", ranges |-> <<
    Range(180000, 450, 0), Range(360000, 780, 5940),
    Range(720000, 1000, 13860), Range(1800000, 1120, 22500),
    Range(3600000, 1470, 85500), Range(4800000, 3000, 720000) >>]

ANEXO_III == [name |-> "Anexo III", ranges |-> <<
    Range(180000, 600, 0), Range(360000, 1120, 9360),
    Range(720000, 1350, 17640), Range(1800000, 1600, 35640),
    Range(3600000, 2100, 125640), Range(4800000, 3300, 648000) >>]

ANEXO_IV == [name |-> "Anexo IV", ranges |-> <<
    Range(180000, 450, 0), Range(360000, 900, 8100),
    Range(720000, 1020, 12420), Range(1800000, 1400, 39780),
    Range(3600000, 2200, 183780), Range(4800000, 3300, 828000) >>]

ANEXO_V == [name |-> "Anexo V", ranges |-> <<
    Range(180000, 1550, 0), Range(360000, 1800, 4500),
    Range(720000, 1950, 9900), Range(1800000, 2050, 17100),
    Range(3600000, 2300, 62100), Range(4800000, 3050, 540000) >>]

ActivityType == {"COMERCIO", "INDUSTRIA", "SERVICO_ANEXO_III",
                 "SERVICO_ANEXO_IV", "SERVICO_ANEXO_V"}

----------------------------------------------------------------------------
(* calculations: Simples Nacional *)

THRESHOLD_ADICIONAL_IRPJ == Reais(240000)

emptyDetailed ==
    [pis |-> 0, cofins |-> 0, irpj |-> 0, irpjAdicional |-> 0, csll |-> 0,
     ipi |-> 0, iss |-> 0, icms |-> 0, rat |-> 0, cpp |-> 0,
     inssTerceiros |-> 0, fgts |-> 0, simplesDAS |-> 0,
     pisFinancial |-> 0, cofinsFinancial |-> 0]

\* factorR >= 0.28, with factorR = payrollTotalEst / revenueAnnual when the
\* revenue is positive and 0 otherwise; payrollTotalEst = payrollBase * 1.1911.
\* Mutant of FactorRReached: a ratio of exactly 0.28 not enough.
FactorRReached_Strict(data) ==
    /\ data.revenueAnnual > 0
    /\ Pct(data.payrollBase, 11911) > Pct(data.revenueAnnual, 2800)

FactorRReached(data) ==
    /\ data.revenueAnnual > 0
    /\ Pct(data.payrollBase, 11911) >= Pct(data.revenueAnnual, 2800)

\* The switch over the activity.
SelectAnnex(data, activity) ==
    CASE activity = "COMERCIO" -> ANEXO_I
      [] activity = "INDUSTRIA" -> ANEXO_II
      [] activity = "SERVICO_ANEXO_III" -> ANEXO_III
      [] activity = "SERVICO_ANEXO_IV" -> ANEXO_IV
      [] activity = "SERVICO_ANEXO_V" ->
            IF FactorRReached(data) THEN ANEXO_III ELSE ANEXO_V
      [] OTHER -> ANEXO_III

\* Mutant of RangeMatches: the limit of a range excluded from it.
RangeMatches_Exclusive(rbt12, r) == rbt12 < r.limit

\* r => rbt12 <= r.limit, the predicate given to find.
RangeMatches(rbt12, r) == rbt12 <= r.limit

\* annex.ranges.find(...) || annex.ranges[annex.ranges.length - 1]:
\* the index of the range used.
FindRange(ranges, rbt12) ==
    LET hits == {i \in 1..Len(ranges) : RangeMatches(rbt12, ranges[i])}
    IN IF hits = {} THEN Len(ranges)
       ELSE CHOOSE i \in hits : \A j \in hits : i <= j

\* revenueAnnual * nominalRate, where nominalRate is
\* (rbt12 * aliquota/100 - deducao) / rbt12 for rbt12 > 0 and 0 otherwise.
DasTax(rbt12, range) ==
    IF rbt12 > 0 THEN Pct(rbt12, range.aliquota) - range.deducao ELSE 0

\* Mutant of SimplesBlocked: the ceiling itself blocked.
SimplesBlocked_AtLimit(data) == data.revenueAnnual >= SIMPLES_LIMIT

\* data.revenueAnnual > SIMPLES_LIMIT
SimplesBlocked(data) == data.revenueAnnual > SIMPLES_LIMIT

SimplesEffectiveRate(totalTax, data) == PercentOf(totalTax, data.revenueAnnual)

\* The result record carries one field the source does not have: rangeIndex,
\* the position in annex.ranges of the range used (0 when none was looked up).
\* The optional isBlocked is FALSE where the source leaves it undefined (its
\* only reader is !r.isBlocked), and an absent notes is the empty list.
\* Mutant of SimplesCpp: the separate CPP charged to every service activity.
SimplesCpp_AllServices(data, activity) ==
    IF activity \notin {"COMERCIO", "INDUSTRIA"}
    THEN Pct(data.payrollBase, 2780) ELSE 0

\* The CPP collected outside the DAS.
SimplesCpp(data, activity) ==
    IF activity = "SERVICO_ANEXO_IV" THEN Pct(data.payrollBase, 2780) ELSE 0

calculateSimples(data, activity) ==
    IF SimplesBlocked(data)
    THEN [regime |-> "Simples Nacional",
          totalTax |-> 0,
          effectiveRate |-> FiniteZero,
          breakdown |-> [taxSales |-> 0, taxIncome |-> 0,
                         taxPayroll |-> 0, charges |-> 0],
          detailed |-> emptyDetailed,
          details |-> << >>,
          isBlocked |-> TRUE,
          notes |-> <<"Faturamento excede limite">>,
          rangeIndex |-> 0]
    ELSE
      LET annex == SelectAnnex(data, activity)
          rbt12 == data.revenueAnnual
          idx == FindRange(annex.ranges, rbt12)
          dasTax == DasTax(rbt12, annex.ranges[idx])
          fgtsAmount == Pct(data.payrollBase, 800)
          cppAmount == SimplesCpp(data, activity)
          totalTax == dasTax + cppAmount + fgtsAmount
      IN [regime |-> "Simples Nacional",
          totalTax |-> totalTax,
          effectiveRate |-> SimplesEffectiveRate(totalTax, data),
          breakdown |-> [taxSales |-> dasTax, taxIncome |-> 0,
                         taxPayroll |-> cppAmount,
                         charges |-> fgtsAmount + cppAmount],
          detailed |-> [emptyDetailed EXCEPT !.simplesDAS = dasTax,
                                             !.cpp = cppAmount,
                                             !.fgts = fgtsAmount],
          details |-> << [label |-> annex.name, value |-> 0],
                         [label |-> "DAS (Guia Unica)", value |-> dasTax],
                         [label |-> "FGTS", value |-> fgtsAmount],
                         IF activity = "SERVICO_ANEXO_IV"
                         THEN [label |-> "INSS Patronal (Externo ao DAS)",
                               value |-> cppAmount]
                         ELSE [label |-> "INSS Patronal (Incluso no DAS)",
                               value |-> 0] >>,
          isBlocked |-> FALSE,
          notes |-> IF activity = "SERVICO_ANEXO_V" /\ FactorRReached(data)
                    THEN <<"Enquadrado no Anexo III pelo Fator R">>
                    ELSE << >>,
          rangeIndex |-> idx]

----------------------------------------------------------------------------
(* calculations: Lucro Presumido *)

IsComercioIndustria(activity) ==
    activity = "COMERCIO" \/ activity = "INDUSTRIA"

PresumidoEffectiveRate(totalTax, data) == PercentOf(totalTax, data.revenueAnnual)

\* Mutant of IrpjAdicional: the surtax charged on the whole base.
IrpjAdicional_NoThreshold(base, config) == Pct(base, config.irpjAdicional)

\* Mutant of IrpjAdicional: a base under the threshold gives a negative
\* surtax.
IrpjAdicional_NoFloor(base, config) ==
    Pct(base - THRESHOLD_ADICIONAL_IRPJ, config.irpjAdicional)

\* Math.max(0, base - THRESHOLD_ADICIONAL_IRPJ) * (config.irpjAdicional / 100)
IrpjAdicional(base, config) ==
    Pct(MathMax(0, base - THRESHOLD_ADICIONAL_IRPJ), config.irpjAdicional)

\* Mutant of PresumidoTotalTax: the FGTS left out of the total.
PresumidoTotalTax_NoFgts(totalIRPJ, totalCSLL, totalSalesTax, cppAmount, fgtsVal) ==
    totalIRPJ + totalCSLL + totalSalesTax + cppAmount

PresumidoTotalTax(totalIRPJ, totalCSLL, totalSalesTax, cppAmount, fgtsVal) ==
    totalIRPJ + totalCSLL + totalSalesTax + cppAmount + fgtsVal

calculatePresumido(data, activity, config) ==
    LET cppVal == Pct(data.payrollBase, config.cpp)
        ratVal == Pct(data.payrollBase, config.rat)
        terceirosVal == Pct(data.payrollBase, config.inssTerceiros)
        fgtsVal == Pct(data.payrollBase, config.fgts)
        cppAmount == cppVal + ratVal + terceirosVal
        chargesAmount == cppAmount + fgtsVal
        isComercioIndustria == IsComercioIndustria(activity)
        calculationBase == data.revenueAnnual
        baseIRPJ == Pct(calculationBase, config.presuncaoIRPJ)
                        + data.financialRevenues
        baseCSLL == Pct(calculationBase, config.presuncaoCSLL)
                        + data.financialRevenues
        irpjBasico == Pct(baseIRPJ, config.irpj)
        irpjAdicional == IrpjAdicional(baseIRPJ, config)
        totalIRPJ == irpjBasico + irpjAdicional
        totalCSLL == Pct(baseCSLL, config.csll)
        pis == Pct(calculationBase, config.pis)
        cofins == Pct(calculationBase, config.cofins)
        ipi == Pct(calculationBase, config.ipi)
        iss == IF ~isComercioIndustria
               THEN Pct(calculationBase, config.iss) ELSE 0
        icms == IF isComercioIndustria
                THEN Pct(calculationBase, config.icms) ELSE 0
        totalSalesTax == pis + cofins + iss + icms + ipi
        totalTax == PresumidoTotalTax(totalIRPJ, totalCSLL, totalSalesTax,
                                      cppAmount, fgtsVal)
    IN [regime |-> "Lucro Presumido",
        totalTax |-> totalTax,
        effectiveRate |-> PresumidoEffectiveRate(totalTax, data),
        breakdown |-> [taxSales |-> totalSalesTax,
                       taxIncome |-> totalIRPJ + totalCSLL,
                       taxPayroll |-> cppAmount,
                       charges |-> chargesAmount],
        detailed |-> [pis |-> pis, cofins |-> cofins, irpj |-> irpjBasico,
                      irpjAdicional |-> irpjAdicional, csll |-> totalCSLL,
                      ipi |-> ipi, iss |-> iss, icms |-> icms,
                      cpp |-> cppVal, rat |-> ratVal,
                      inssTerceiros |-> terceirosVal, fgts |-> fgtsVal,
                      simplesDAS |-> 0, pisFinancial |-> 0,
                      cofinsFinancial |-> 0],
        details |-> << [label |-> "PIS/COFINS", value |-> pis + cofins],
                       [label |-> "IRPJ/CSLL", value |-> totalIRPJ + totalCSLL],
                       [label |-> "ISS/ICMS/IPI", value |-> iss + icms + ipi],
                       [label |-> "INSS Patronal", value |-> cppAmount],
                       [label |-> "FGTS", value |-> fgtsVal] >>,
        isBlocked |-> FALSE,
        notes |-> << >>,
        rangeIndex |-> 0]

----------------------------------------------------------------------------
(* calculations: Lucro Real *)

\* Mutant of CreditBase: an explicit base of zero taken as no base at all.
CreditBase_ZeroIsAbsent(data, activity) ==
    IF data.realCreditBase # Undefined /\ ValueOf(data.realCreditBase) # 0
    THEN ValueOf(data.realCreditBase)
    ELSE IF IsComercioIndustria(activity)
         THEN data.cogs
         ELSE Pct(data.expenses, 2000)

\* The base of the PIS/COFINS credits.
CreditBase(data, activity) ==
    IF data.realCreditBase # Undefined
    THEN ValueOf(data.realCreditBase)
    ELSE IF IsComercioIndustria(activity)
         THEN data.cogs
         ELSE Pct(data.expenses, 2000)

\* Mutant of Payable: the credit above the debit kept as a negative.
Payable_NoFloor(debito, credito) == debito - credito

\* Math.max(0, debito - credito)
Payable(debito, credito) == MathMax(0, debito - credito)

RealEffectiveRate(totalTax, data) == PercentOf(totalTax, data.revenueAnnual)

\* Mutant of FinancialResult: the PIS/COFINS on financial revenue not
\* taken off the financial result.
FinancialResult_NoTaxes(data, totalFinancialTaxes) ==
    data.financialRevenues - data.financialExpenses

FinancialResult(data, totalFinancialTaxes) ==
    data.financialRevenues - totalFinancialTaxes - data.financialExpenses

\* Mutant of TaxableIncome: a fiscal loss kept as a negative base.
TaxableIncome_NoFloor(profitBeforeTax, lalurAdjustments) ==
    profitBeforeTax + lalurAdjustments.additions - lalurAdjustments.exclusions

TaxableIncome(profitBeforeTax, lalurAdjustments) ==
    MathMax(0, profitBeforeTax + lalurAdjustments.additions
                   - lalurAdjustments.exclusions)

calculateReal(data, activity, config, lalurAdjustments) ==
    LET isComercioIndustria == IsComercioIndustria(activity)
        cppVal == Pct(data.payrollBase, config.cpp)
        ratVal == Pct(data.payrollBase, config.rat)
        terceirosVal == Pct(data.payrollBase, config.inssTerceiros)
        fgtsVal == Pct(data.payrollBase, config.fgts)
        cppAmount == cppVal + ratVal + terceirosVal
        chargesAmount == cppAmount + fgtsVal
        revenueBase == MathMax(0, data.revenueAnnual - data.deductions)
        debitoPis == Pct(revenueBase, config.pis)
        debitoCofins == Pct(revenueBase, config.cofins)
        creditBase == CreditBase(data, activity)
        creditoPis == Pct(creditBase, config.pis)
        creditoCofins == Pct(creditBase, config.cofins)
        pisPayable == Payable(debitoPis, creditoPis)
        cofinsPayable == Payable(debitoCofins, creditoCofins)
        pisFinancial == Pct(data.financialRevenues, config.pisFinancial)
        cofinsFinancial == Pct(data.financialRevenues, config.cofinsFinancial)
        totalFinancialTaxes == pisFinancial + cofinsFinancial
        ipi == Pct(data.revenueAnnual, config.ipi)
        iss == IF ~isComercioIndustria
               THEN Pct(data.revenueAnnual, config.iss) ELSE 0
        icms == IF isComercioIndustria
                THEN Pct(data.revenueAnnual, config.icms) ELSE 0
        totalSalesTax == pisPayable + cofinsPayable + iss + icms + ipi
        netRevenue == data.revenueAnnual - data.deductions - totalSalesTax
        totalDeductibleExpenses ==
            data.cogs + data.expenses + data.payrollBase + chargesAmount
        operationalResult == netRevenue - totalDeductibleExpenses
        financialResult == FinancialResult(data, totalFinancialTaxes)
        profitBeforeTax == operationalResult + financialResult
        taxableIncome == TaxableIncome(profitBeforeTax, lalurAdjustments)
        irpjBasico == Pct(taxableIncome, config.irpj)
        irpjAdicional == IrpjAdicional(taxableIncome, config)
        totalIRPJ == irpjBasico + irpjAdicional
        totalCSLL == Pct(taxableIncome, config.csll)
        totalTax == totalIRPJ + totalCSLL + totalSalesTax
                        + totalFinancialTaxes + cppAmount + fgtsVal
    IN [regime |-> "Lucro Real",
        totalTax |-> totalTax,
        effectiveRate |-> RealEffectiveRate(totalTax, data),
        breakdown |-> [taxSales |-> totalSalesTax,
                       taxIncome |-> totalIRPJ + totalCSLL,
                       taxPayroll |-> cppAmount,
                       charges |-> chargesAmount],
        detailed |-> [pis |-> pisPayable, cofins |-> cofinsPayable,
                      irpj |-> irpjBasico, irpjAdicional |-> irpjAdicional,
                      csll |-> totalCSLL, ipi |-> ipi, iss |-> iss,
                      icms |-> icms, cpp |-> cppVal, rat |-> ratVal,
                      inssTerceiros |-> terceirosVal, fgts |-> fgtsVal,
                      simplesDAS |-> 0, pisFinancial |-> pisFinancial,
                      cofinsFinancial |-> cofinsFinancial],
        details |-> << [label |-> "PIS/COFINS (Liq)",
                        value |-> pisPayable + cofinsPayable],
                       [label |-> "PIS/COFINS (Fin)",
                        value |-> totalFinancialTaxes],
                       [label |-> "IRPJ/CSLL", value |-> totalIRPJ + totalCSLL],
                       [label |-> "ISS/ICMS", value |-> iss + icms],
                       [label |-> "INSS Patronal", value |-> cppAmount],
                       [label |-> "FGTS", value |-> fgtsVal] >>,
        isBlocked |-> FALSE,
        notes |-> (IF taxableIncome <= 0
                   THEN <<"Prejuizo Fiscal projetado">> ELSE << >>)
                  \o (IF lalurAdjustments.additions > 0
                      THEN <<"Adicoes LALUR">> ELSE << >>)
                  \o (IF lalurAdjustments.exclusions > 0
                      THEN <<"Exclusoes LALUR">> ELSE << >>),
        rangeIndex |-> 0]

----------------------------------------------------------------------------
(* calculations: Reforma Tributaria (IBS + CBS) *)

\* The condition under which a line is looked at for credit.
IsCreditLine(line) ==
    line.lineType = "ANALYTICAL" /\ (line.tag = "CUSTO" \/ line.tag = "DESPESA")

\* Mutant of CreditRate: a line without a percentage of its own takes the
\* standard credit rate of the default configuration (100%).
CreditRate_Standard(line) ==
    IF line.reformCreditRate # Undefined THEN ValueOf(line.reformCreditRate)
    ELSE 100

\* line.reformCreditRate !== undefined ? line.reformCreditRate : 0
CreditRate(line) ==
    IF line.reformCreditRate # Undefined THEN ValueOf(line.reformCreditRate) ELSE 0

\* Mutant of EligibleBase: the sign of the line's value kept.
EligibleBase_Signed(line) ==
    IF IsCreditLine(line) /\ CreditRate(line) > 0
    THEN Pct(line.value, CreditRate(line) * 100)
    ELSE 0

\* Math.abs(line.value) * (creditRate / 100), creditRate a whole percent;
\* 0 for a line that adds nothing to the credits.
EligibleBase(line) ==
    IF IsCreditLine(line) /\ CreditRate(line) > 0
    THEN Pct(Abs(line.value), CreditRate(line) * 100)
    ELSE 0

\* The forEach over displayLines: the credit accumulated at the given rate.
RECURSIVE CreditSum(_, _)
CreditSum(lines, rate) ==
    IF lines = << >> THEN 0
    ELSE CreditSum(SubSeq(lines, 1, Len(lines) - 1), rate)
            + Pct(EligibleBase(lines[Len(lines)]), rate)

\* Mutant of ReformPayable: the excess credit of a leg kept as a negative.
ReformPayable_NoFloor(debit, credit) == debit - credit

\* Math.max(0, debit - credit) of one leg of the IVA.
ReformPayable(debit, credit) == MathMax(0, debit - credit)

\* totalIVA
TotalIVA(ibsPayable, cbsPayable, selectiveTax) ==
    ibsPayable + cbsPayable + selectiveTax

\* Mutant of ReformTotalTax: the payroll tax left to the charges.
ReformTotalTax_NoPayroll(totalIVA, taxIncome, taxPayroll, charges) ==
    totalIVA + taxIncome + charges

\* totalTax of the reform scenario
ReformTotalTax(totalIVA, taxIncome, taxPayroll, charges) ==
    totalIVA + taxIncome + taxPayroll + charges

ReformEffectiveRate(totalTax, data) == PercentOf(totalTax, data.revenueAnnual)

\* Mutant of CarriedOver: the charges taken for the payroll tax.
CarriedOver_ChargesTwice(currentBestScenario) ==
    [taxIncome |-> currentBestScenario.breakdown.taxIncome,
     taxPayroll |-> currentBestScenario.breakdown.charges,
     charges |-> currentBestScenario.breakdown.charges]

\* What calculateReform takes from the best current scenario.
CarriedOver(currentBestScenario) ==
    [taxIncome |-> currentBestScenario.breakdown.taxIncome,
     taxPayroll |-> currentBestScenario.breakdown.taxPayroll,
     charges |-> currentBestScenario.breakdown.charges]

calculateReform(data, lines, config, currentBestScenario) ==
    LET revenueBase == MathMax(0, data.revenueAnnual - data.deductions)
        ibsDebit == Pct(revenueBase, config.ibsRate)
        cbsDebit == Pct(revenueBase, config.cbsRate)
        selectiveTax == Pct(revenueBase, config.selectiveTaxRate)
        ibsCredit == CreditSum(lines, config.ibsRate)
        cbsCredit == CreditSum(lines, config.cbsRate)
        ibsPayable == ReformPayable(ibsDebit, ibsCredit)
        cbsPayable == ReformPayable(cbsDebit, cbsCredit)
        totalIVA == TotalIVA(ibsPayable, cbsPayable, selectiveTax)
        carried == CarriedOver(currentBestScenario)
        taxIncome == carried.taxIncome
        taxPayroll == carried.taxPayroll
        charges == carried.charges
        totalTax == ReformTotalTax(totalIVA, taxIncome, taxPayroll, charges)
    IN [regime |-> "Reforma Tributaria",
        totalTax |-> totalTax,
        effectiveRate |-> ReformEffectiveRate(totalTax, data),
        breakdown |-> [taxSales |-> totalIVA, taxIncome |-> taxIncome,
                       taxPayroll |-> taxPayroll, charges |-> charges],
        detailed |-> [pis |-> 0, cofins |-> 0, irpj |-> 0, irpjAdicional |-> 0,
                      csll |-> 0, ipi |-> 0, iss |-> 0, icms |-> 0, rat |-> 0,
                      cpp |-> 0, inssTerceiros |-> 0, fgts |-> 0,
                      simplesDAS |-> 0, pisFinancial |-> 0,
                      cofinsFinancial |-> 0, ibs |-> ibsPayable,
                      cbs |-> cbsPayable, selectiveTax |-> selectiveTax],
        totalCredits |-> ibsCredit + cbsCredit,
        debitIBS |-> ibsDebit,
        debitCBS |-> cbsDebit,
        creditIBS |-> ibsCredit,
        creditCBS |-> cbsCredit,
        details |-> << [label |-> "IBS a Pagar", value |-> ibsPayable],
                       [label |-> "CBS a Pagar", value |-> cbsPayable],
                       [label |-> "Imposto Seletivo", value |-> selectiveTax],
                       [label |-> "Creditos Tomados",
                        value |-> ibsCredit + cbsCredit],
                       [label |-> "IRPJ/CSLL (Estimado)", value |-> taxIncome] >>]

----------------------------------------------------------------------------
(* Dashboard: the useMemo that computes "results" *)

\* The reduce over the ANALYTICAL lines that carry a LALUR adjustment.
RECURSIVE LalurAdjustments(_)
LalurAdjustments(lines) ==
    IF lines = << >> THEN [additions |-> 0, exclusions |-> 0]
    ELSE LET acc == LalurAdjustments(SubSeq(lines, 1, Len(lines) - 1))
             curr == lines[Len(lines)]
             counted == curr.lineType = "ANALYTICAL"
         IN [additions |-> acc.additions
                 + (IF counted /\ curr.lalurAdjustment = "ADDITION"
                    THEN Abs(curr.value) ELSE 0),
             exclusions |-> acc.exclusions
                 + (IF counted /\ curr.lalurAdjustment = "EXCLUSION"
                    THEN Abs(curr.value) ELSE 0)]

\* Mutant of FilterNotBlocked: nothing filtered out.
FilterNotBlocked_KeepAll(rs) == rs

\* [simples, presumido, real].filter(r => !r.isBlocked)
FilterNotBlocked(rs) == SelectSeq(rs, LAMBDA r : ~r.isBlocked)

\* Mutant of KeepLower: on equal totals the earlier result kept.
KeepLower_FirstOnTie(prev, curr) ==
    IF prev.totalTax <= curr.totalTax THEN prev ELSE curr

\* (prev, curr) => prev.totalTax < curr.totalTax ? prev : curr
KeepLower(prev, curr) == IF prev.totalTax < curr.totalTax THEN prev ELSE curr

\* allCurrent.reduce(KeepLower), for a non-empty allCurrent.
RECURSIVE Reduce(_)
Reduce(rs) ==
    IF Len(rs) = 1 THEN rs[1]
    ELSE KeepLower(Reduce(SubSeq(rs, 1, Len(rs) - 1)), rs[Len(rs)])

\* Mutant of BestCurrent: the Simples result taken whatever its state.
BestCurrent_AlwaysSimples(simples, presumido, real) == simples

BestCurrent(simples, presumido, real) ==
    LET allCurrent == FilterNotBlocked(<<simples, presumido, real>>)
    IN IF Len(allCurrent) > 0 THEN Reduce(allCurrent) ELSE real

\* The results keep, of simples, presumido and real, the whole records; of
\* allCurrent, the regimes in order.
UseMemoResults(data, lines, activity, pConfig, rConfig, fConfig) ==
    LET lalurAdjustments == LalurAdjustments(lines)
        simples == calculateSimples(data, activity)
        presumido == calculatePresumido(data, activity, pConfig)
        real == calculateReal(data, activity, rConfig, lalurAdjustments)
        allCurrent == FilterNotBlocked(<<simples, presumido, real>>)
        bestCurrent == BestCurrent(simples, presumido, real)
        reform == calculateReform(data, lines, fConfig, bestCurrent)
    IN [simples |-> simples, presumido |-> presumido, real |-> real,
        reform |-> reform,
        allCurrent |-> [i \in 1..Len(allCurrent) |-> allCurrent[i].regime],
        bestCurrent |-> bestCurrent,
        lalurAdjustments |-> lalurAdjustments]

----------------------------------------------------------------------------
(* Dashboard: default configurations *)

DEFAULT_PRESUMIDO_CONFIG ==
    [pis |-> 65, cofins |-> 300, irpj |-> 1500, irpjAdicional |-> 1000,
     csll |-> 900, ipi |-> 0, iss |-> 500, icms |-> 1800, rat |-> 200,
     cpp |-> 2000, inssTerceiros |-> 580, fgts |-> 800,
     presuncaoIRPJ |-> 3200, presuncaoCSLL |-> 3200,
     pisFinancial |-> 0, cofinsFinancial |-> 0]

DEFAULT_REAL_CONFIG ==
    [pis |-> 165, cofins |-> 760, irpj |-> 1500, irpjAdicional |-> 1000,
     csll |-> 900, ipi |-> 0, iss |-> 500, icms |-> 1800, rat |-> 200,
     cpp |-> 2000, inssTerceiros |-> 580, fgts |-> 800,
     presuncaoIRPJ |-> 0, presuncaoCSLL |-> 0,
     pisFinancial |-> 65, cofinsFinancial |-> 400]

DEFAULT_REFORM_CONFIG ==
    [ibsRate |-> 1750, cbsRate |-> 900, selectiveTaxRate |-> 0,
     standardCreditRate |-> 10000]

----------------------------------------------------------------------------
(* Inputs *)

\* The number of DRE lines of a statement.
MaxLines == 2

FinancialData(rev, ded, pay, cogs, exp, finRev, finExp, rcb) ==
    [revenueAnnual |-> rev, deductions |-> ded, taxesOnSales |-> 0,
     taxesIncome |-> 0, payrollBase |-> pay, expenses |-> exp,
     financialRevenues |-> finRev, financialExpenses |-> finExp,
     cogs |-> cogs, realCreditBase |-> rcb]

Line(value, lineType, tag, rate, lalur) ==
    [value |-> value, lineType |-> lineType, tag |-> tag,
     useForCredit |-> FALSE, reformCreditRate |-> rate,
     lalurAdjustment |-> lalur]

\* The limits of the ranges (the same in the five annexes).
RangeLimits == {ANEXO_I.ranges[i].limit : i \in 1..Len(ANEXO_I.ranges)}

\* No revenue, a small one, and the revenues at and just above every limit.
RevenuePoints ==
    {0, Reais(10000)}
        \cup RangeLimits \cup {l + Reais(10000) : l \in RangeLimits}

\* Rates other than the defaults: trade margins, IPI, a higher RAT, other
\* IBS and CBS rates and a selective tax.
OtherPresumidoConfig ==
    [DEFAULT_PRESUMIDO_CONFIG EXCEPT !.presuncaoIRPJ = 800,
                                     !.presuncaoCSLL = 1200, !.ipi = 500]

OtherRealConfig ==
    [DEFAULT_REAL_CONFIG EXCEPT !.rat = 300, !.ipi = 500]

OtherReformConfig ==
    [DEFAULT_REFORM_CONFIG EXCEPT !.ibsRate = 1200, !.cbsRate = 850,
                                  !.selectiveTaxRate = 100]

\* Statements of at most MaxLines lines, each drawn from the set ls.
LinesOver(ls) == UNION {[1..n -> ls] : n \in 0..MaxLines}

\* Family 1: the revenue swept across the ranges of every annex.
InitRanges ==
    /\ \E rev \in RevenuePoints, pay \in {0, Reais(50000), Reais(500000)} :
          editableData = FinancialData(rev, 0, pay, 0, 0, 0, 0, Undefined)
    /\ activityType \in ActivityType
    /\ displayLines = << >>
    /\ presumidoConfig = DEFAULT_PRESUMIDO_CONFIG
    /\ realConfig = DEFAULT_REAL_CONFIG
    /\ reformConfig = DEFAULT_REFORM_CONFIG

\* Family 2: statements on which the three current regimes compare
\* differently, with and without LALUR adjustments.
InitRegimes ==
    /\ \E rev \in {0, Reais(1000000), Reais(4810000)},
          ded \in {0, Reais(100000)},
          pay \in {0, Reais(150000)},
          cogs \in {0, Reais(300000)},
          exp \in {0, Reais(200000), Reais(5000000)},
          finRev \in {0, Reais(50000)},
          finExp \in {0, Reais(30000)} :
          \E rcb \in {Undefined, Some(0), Some(MathMax(0, rev - ded))} :
             editableData = FinancialData(rev, ded, pay, cogs, exp, finRev,
                                          finExp, rcb)
    /\ activityType \in ActivityType
    /\ displayLines \in
          { << >>,
            <<Line(Reais(-60000), "ANALYTICAL", "DESPESA", Some(0), "ADDITION")>>,
            <<Line(Reais(60000), "ANALYTICAL", "OUTROS", Some(0), "EXCLUSION")>> }
    /\ presumidoConfig \in {DEFAULT_PRESUMIDO_CONFIG, OtherPresumidoConfig}
    /\ realConfig \in {DEFAULT_REAL_CONFIG, OtherRealConfig}
    /\ reformConfig \in {DEFAULT_REFORM_CONFIG, OtherReformConfig}

\* The lines of family 3.
ReformLines ==
    { Line(v, k[1], k[2], rate, "null") :
        v \in {Reais(-100000), Reais(60000)},
        k \in { <<"ANALYTICAL", "CUSTO">>, <<"ANALYTICAL", "DESPESA">>,
                <<"ANALYTICAL", "RECEITA">>, <<"SYNTHETIC", "DESPESA">> },
        rate \in {Undefined, Some(0), Some(50), Some(100)} }

\* Family 3: statements whose lines carry reform credit percentages.
InitReform ==
    /\ \E rev \in {Reais(100000), Reais(1000000)} :
          editableData = FinancialData(rev, 0, Reais(150000), 0,
                                       Reais(200000), 0, 0, Some(0))
    /\ activityType = "SERVICO_ANEXO_III"
    /\ displayLines \in LinesOver(ReformLines)
    /\ presumidoConfig = DEFAULT_PRESUMIDO_CONFIG
    /\ realConfig = DEFAULT_REAL_CONFIG
    /\ reformConfig \in {DEFAULT_REFORM_CONFIG, OtherReformConfig}

\* Family 4: qualified services around a Factor R of exactly 0.28
\* (280.000 * 1,1911 / 1.191.100).  This revenue is not a multiple of
\* R$ 10.000: the income taxes of the other regimes are cut to the centavo.
InitFactorR ==
    /\ \E pay \in {Reais(270000), Reais(280000), Reais(290000)} :
          editableData = FinancialData(Reais(1191100), 0, pay, 0, 0, 0, 0,
                                       Undefined)
    /\ activityType \in ActivityType
    /\ displayLines = << >>
    /\ presumidoConfig = DEFAULT_PRESUMIDO_CONFIG
    /\ realConfig = DEFAULT_REAL_CONFIG
    /\ reformConfig = DEFAULT_REFORM_CONFIG

NoResults == << >>

\* simId of a new simulation: Date.now().toString(), 13 characters.  Ids
\* are numbers in the model: 0 is this local id, n > 0 is the n-th UUID the
\* table generated.
LocalId == 0

\* AppContent with the Dashboard of the signed-in user on screen.
DashboardOpen ==
    [user |-> "ana", authLoading |-> FALSE, route |-> "/dashboard",
     financialData |-> "imported", currentSimulationId |-> "null",
     uploading |-> FALSE, loggingOut |-> FALSE]

\* The Dashboard of a new simulation, nothing saved yet.
NewSession ==
    /\ simId = LocalId
    /\ simName = ""
    /\ showSaveModal = FALSE
    /\ saves = << >>
    /\ simulations = {}
    /\ app = DashboardOpen


----------------------------------------------------------------------------
(* Dashboard: the rate fields *)

\* The amount, in hundredths of a percent, by which a change event raises
\* a rate: one or ten percentage points.
RateSteps == {100, 1000}

\* Number of rate changes followed from an initial configuration.
MaxRaises == 1

\* The fields of a TaxRateConfig.
RateFields == DOMAIN DEFAULT_PRESUMIDO_CONFIG

\* The statements of the rate specification.
InitRates ==
    /\ \E rev \in {Reais(1000000), Reais(3000000)},
          ded \in {0, Reais(100000)},
          exp \in {Reais(200000), Reais(5000000)},
          rcb \in {Undefined, Some(Reais(400000))} :
          editableData = FinancialData(rev, ded, Reais(150000), Reais(300000),
                                       exp, Reais(50000), 0, rcb)
    /\ activityType \in {"COMERCIO", "SERVICO_ANEXO_III"}
    /\ displayLines = << >>
    /\ \/ presumidoConfig = DEFAULT_PRESUMIDO_CONFIG
          /\ realConfig = DEFAULT_REAL_CONFIG
       \/ presumidoConfig = OtherPresumidoConfig
          /\ realConfig = OtherRealConfig
    /\ reformConfig = DEFAULT_REFORM_CONFIG
    /\ results = UseMemoResults(editableData, displayLines, activityType,
                                presumidoConfig, realConfig, reformConfig)
    /\ pc = "done"
    /\ edits = 0
    /\ originalLines = << >>
    /\ taxCategory = (IF IsComercioIndustria(activityType) THEN "ICMS" ELSE "ISS")
    /\ NewSession

\* setPresumidoConfig({...presumidoConfig, [field]: value}) with a value
\* above the current one, and the useMemo that follows the change.
RaisePresumidoRate ==
    /\ pc = "done"
    /\ edits < MaxRaises
    /\ \E field \in RateFields, step \in RateSteps :
          presumidoConfig' =
              [presumidoConfig EXCEPT ![field] = @ + step]
    /\ results' = UseMemoResults(editableData, displayLines, activityType,
                                 presumidoConfig', realConfig, reformConfig)
    /\ edits' = edits + 1
    /\ UNCHANGED <<editableData, displayLines, activityType, realConfig,
                   reformConfig, pc>>
    /\ UNCHANGED sessionVars

\* setRealConfig({...realConfig, [field]: value}) with a value above the
\* current one, and the useMemo that follows the change.
RaiseRealRate ==
    /\ pc = "done"
    /\ edits < MaxRaises
    /\ \E field \in RateFields, step \in RateSteps :
          realConfig' = [realConfig EXCEPT ![field] = @ + step]
    /\ results' = UseMemoResults(editableData, displayLines, activityType,
                                 presumidoConfig, realConfig', reformConfig)
    /\ edits' = edits + 1
    /\ UNCHANGED <<editableData, displayLines, activityType, presumidoConfig,
                   reformConfig, pc>>
    /\ UNCHANGED sessionVars

NextRates == RaisePresumidoRate \/ RaiseRealRate

SpecRates == InitRates /\ [][NextRates]_vars

----------------------------------------------------------------------------
(* Dashboard: the statement editor *)

LineTag == {"RECEITA", "DEDUCAO", "IMPOSTO_VENDA", "IRPJ_CSLL", "FOLHA",
            "CUSTO", "DESPESA", "REC_FIN", "DESP_FIN", "OUTROS", "IGNORE"}

\* A DRELineItem.  An absent lineType or tag is "undefined", an absent or
\* null lalurAdjustment is "null", an absent useForCredit is FALSE (the
\* code only tests its truth), an absent reformCreditRate is Undefined.
DRELineItem(description, value, isTotal, lineType, tag) ==
    [description |-> description, value |-> value, isTotal |-> isTotal,
     lineType |-> lineType, tag |-> tag, useForCredit |-> FALSE,
     reformCreditRate |-> Undefined, lalurAdjustment |-> "null"]

\* The keywords of the initial classification that occur in the upper-cased
\* description, for the descriptions the model imports.  Keywords are
\* written without their accents.
KeywordsOf(description) ==
    CASE description = "Receita Bruta de Vendas" -> {"RECEITA BRUTA", "VENDAS"}
      [] description = "Juros" -> {"JUROS"}
      [] description = "Despesas com Comissoes" -> {"ISS"}
      [] description = "Custo das Mercadorias" -> {"CUSTO"}
      [] description = "Custo Financeiro" -> {"CUSTO", "FINANCEIRA"}
      [] OTHER -> {}

\* desc.includes(k1) || desc.includes(k2) || ...
Includes(description, keywords) == KeywordsOf(description) \cap keywords # {}

\* Mutant of FinancialTag: a financial line of value zero taken as revenue.
FinancialTag_ZeroIsRevenue(line) ==
    IF line.value >= 0 THEN "REC_FIN" ELSE "DESP_FIN"

\* line.value > 0 ? 'REC_FIN' : 'DESP_FIN'
FinancialTag(line) == IF line.value > 0 THEN "REC_FIN" ELSE "DESP_FIN"

\* The tag the initialization gives an imported line.
InitialTag(line) ==
    LET tag == IF line.tag # "undefined" THEN line.tag ELSE "OUTROS"
        desc == line.description
    IN IF tag # "OUTROS" THEN tag
       ELSE IF Includes(desc, {"RECEITA BRUTA", "VENDAS", "SERVICOS PRESTADOS"})
            THEN "RECEITA"
       ELSE IF Includes(desc, {"DEVOLU", "CANCELAMENTO", "ABATIMENTO"})
            THEN "DEDUCAO"
       ELSE IF Includes(desc, {"SIMPLES", "PIS", "COFINS", "ICMS", "ISS"})
            THEN "IMPOSTO_VENDA"
       ELSE IF Includes(desc, {"IMPOSTO DE RENDA", "IRPJ", "CSLL"})
            THEN "IRPJ_CSLL"
       ELSE IF Includes(desc, {"FOLHA", "SALARIOS", "PRO-LABORE"})
            THEN "FOLHA"
       ELSE IF Includes(desc, {"CUSTO", "CMV", "CSP"})
            THEN "CUSTO"
       ELSE IF Includes(desc, {"FINANCEIRA", "JUROS"})
            THEN FinancialTag(line)
       ELSE IF line.value < 0 /\ ~line.isTotal
            THEN "DESPESA"
       ELSE tag

\* The line the initialization makes of an imported line.
InitialLine(line) ==
    [line EXCEPT
        !.tag = InitialTag(line),
        !.lineType = IF line.lineType # "undefined" THEN line.lineType
                     ELSE IF line.isTotal THEN "SYNTHETIC" ELSE "ANALYTICAL",
        !.reformCreditRate = Some(0)]

\* data.originalLines.map(...)
InitialLines(lines) ==
    [i \in 1..Len(lines) |-> InitialLine(lines[i])]

\* Mutant of Counted: the lines of groups summed too.
Counted_AnyType(line, tag) == line.tag = tag

\* The filter of sumByTag.
Counted(line, tag) == line.tag = tag /\ line.lineType = "ANALYTICAL"

\* Mutant of SumStep: the accumulator replaced by the line instead of added
\* to.
SumStep_Overwrite(acc, curr) == Abs(curr.value)

\* The reducer of sumByTag: acc + Math.abs(curr.value)
SumStep(acc, curr) == acc + Abs(curr.value)

\* lines.filter(...).reduce(..., 0) of sumByTag, left to right.
RECURSIVE sumByTag(_, _)
sumByTag(lines, tag) ==
    IF lines = << >> THEN 0
    ELSE LET acc == sumByTag(SubSeq(lines, 1, Len(lines) - 1), tag)
             curr == lines[Len(lines)]
         IN IF Counted(curr, tag) THEN SumStep(acc, curr) ELSE acc

\* The filter of the credit base.
CountedForCredit(line) ==
    /\ line.useForCredit
    /\ line.tag = "DESPESA" \/ line.tag = "CUSTO"
    /\ line.lineType = "ANALYTICAL"

RECURSIVE creditBase(_)
creditBase(lines) ==
    IF lines = << >> THEN 0
    ELSE LET acc == creditBase(SubSeq(lines, 1, Len(lines) - 1))
             curr == lines[Len(lines)]
         IN IF CountedForCredit(curr) THEN SumStep(acc, curr) ELSE acc

\* The FinancialData recalcTotals stores, from a copy of the imported data.
recalcTotals(data, lines) ==
    [data EXCEPT
        !.revenueAnnual = sumByTag(lines, "RECEITA"),
        !.deductions = sumByTag(lines, "DEDUCAO"),
        !.taxesOnSales = sumByTag(lines, "IMPOSTO_VENDA"),
        !.taxesIncome = sumByTag(lines, "IRPJ_CSLL"),
        !.payrollBase = sumByTag(lines, "FOLHA"),
        !.cogs = sumByTag(lines, "CUSTO"),
        !.expenses = sumByTag(lines, "DESPESA"),
        !.financialRevenues = sumByTag(lines, "REC_FIN"),
        !.financialExpenses = sumByTag(lines, "DESP_FIN"),
        !.realCreditBase = Some(creditBase(lines))]

\* Mutant of TriggersRecalc: the credit checkbox does not recompute.
TriggersRecalc_NotOnCredit(field) ==
    field \notin {"reformCreditRate", "lalurAdjustment", "useForCredit"}

\* field !== 'reformCreditRate' && field !== 'lalurAdjustment'
TriggersRecalc(field) == field \notin {"reformCreditRate", "lalurAdjustment"}

\* The values the editor offers for each field of a line.
FieldValues ==
    [description |-> {"Juros", "Aluguel"},
     value |-> {Reais(-20000), Reais(10000)},
     lineType |-> {"SYNTHETIC", "ANALYTICAL"},
     tag |-> LineTag,
     useForCredit |-> {TRUE, FALSE},
     lalurAdjustment |-> {"null", "ADDITION", "EXCLUSION"},
     reformCreditRate |-> {Some(0), Some(100)}]

\* Number of line edits followed from an imported statement.
MaxEdits == 2

\* The statements the model imports: lines the import left untagged and
\* untyped, lines of every tag, totals and groups.
ImportedStatements ==
    { << >>,
      << DRELineItem("Receita Bruta de Vendas", Reais(100000), FALSE,
                     "undefined", "undefined"),
         DRELineItem("Aluguel", Reais(-20000), FALSE, "undefined", "undefined"),
         DRELineItem("Juros", Reais(-10000), FALSE, "undefined", "OUTROS") >>,
      << DRELineItem("Aluguel", Reais(50000), FALSE, "ANALYTICAL", "DEDUCAO"),
         DRELineItem("Aluguel", Reais(30000), FALSE, "ANALYTICAL",
                     "IMPOSTO_VENDA"),
         DRELineItem("Aluguel", Reais(10000), FALSE, "ANALYTICAL",
                     "IRPJ_CSLL") >>,
      << DRELineItem("Aluguel", Reais(40000), FALSE, "ANALYTICAL", "FOLHA"),
         DRELineItem("Custo das Mercadorias", Reais(-30000), FALSE,
                     "undefined", "undefined"),
         DRELineItem("Juros", Reais(10000), FALSE, "undefined", "undefined") >>,
      << DRELineItem("Receita Bruta de Vendas", Reais(100000), TRUE,
                     "undefined", "undefined"),
         DRELineItem("Despesas com Comissoes", Reais(-10000), FALSE,
                     "undefined", "undefined") >>,
      << DRELineItem("Aluguel", Reais(20000), FALSE, "SYNTHETIC", "DESPESA"),
         DRELineItem("Aluguel", Reais(-20000), FALSE, "ANALYTICAL", "DESPESA"),
         DRELineItem("Aluguel", Reais(-10000), FALSE, "ANALYTICAL",
                     "DESPESA") >>,
      << DRELineItem("Juros", 0, FALSE, "undefined", "undefined"),
         DRELineItem("Aluguel", Reais(-20000), TRUE, "undefined", "undefined"),
         DRELineItem("Aluguel", Reais(10000), FALSE, "undefined", "OUTROS") >>,
      << DRELineItem("Custo Financeiro", Reais(-10000), FALSE, "undefined",
                     "undefined"),
         DRELineItem("Juros", Reais(10000), FALSE, "ANALYTICAL", "CUSTO") >> }

\* Family 5: the Dashboard right after the initialization effect of a new
\* simulation: the lines as initialized from the imported statement, the
\* totals as recalcTotals leaves them.
InitImported ==
    /\ originalLines \in ImportedStatements
    /\ displayLines = InitialLines(originalLines)
    /\ editableData =
          recalcTotals(FinancialData(0, 0, 0, 0, 0, 0, 0, Undefined),
                       InitialLines(originalLines))
    /\ activityType \in {"SERVICO_ANEXO_III", "COMERCIO"}
    /\ presumidoConfig = DEFAULT_PRESUMIDO_CONFIG
    /\ realConfig = DEFAULT_REAL_CONFIG
    /\ reformConfig \in {DEFAULT_REFORM_CONFIG, OtherReformConfig}

Init ==
    /\ \/ /\ InitRanges \/ InitRegimes \/ InitReform \/ InitFactorR
          /\ originalLines = << >>
       \/ InitImported
    /\ results = NoResults
    /\ pc = "input"
    /\ edits = 0
    /\ taxCategory = (IF IsComercioIndustria(activityType) THEN "ICMS" ELSE "ISS")
    /\ NewSession

\* Mutant of Calculate: the calculators net the deductions into the revenue
\* of the FinancialData they are given.
Calculate_NetsRevenue ==
    /\ pc = "input"
    /\ results' = UseMemoResults(editableData, displayLines, activityType,
                                 presumidoConfig, realConfig, reformConfig)
    /\ editableData' =
          [editableData EXCEPT
              !.revenueAnnual = MathMax(0, @ - editableData.deductions),
              !.deductions = 0]
    /\ pc' = "done"
    /\ UNCHANGED <<displayLines, activityType, presumidoConfig,
                   realConfig, reformConfig, edits>>
    /\ UNCHANGED sessionVars

\* The useMemo runs on the current state.
Calculate ==
    /\ pc = "input"
    /\ results' = UseMemoResults(editableData, displayLines, activityType,
                                 presumidoConfig, realConfig, reformConfig)
    /\ pc' = "done"
    /\ UNCHANGED <<editableData, displayLines, activityType, presumidoConfig,
                   realConfig, reformConfig, edits>>
    /\ UNCHANGED sessionVars

Next == Calculate

Spec == Init /\ [][Next]_vars

\* The Dashboard as mounted: editableData is the imported data, whose
\* summary values come from the import and not from the lines.
InitDashboard ==
    /\ \E rev \in {0, Reais(100000)}, exp \in {0, Reais(50000)} :
          editableData = FinancialData(rev, 0, 0, 0, exp, 0, 0, Undefined)
    /\ originalLines \in ImportedStatements
    /\ displayLines = << >>
    /\ activityType = "SERVICO_ANEXO_III"
    /\ taxCategory = "ISS"
    /\ presumidoConfig = DEFAULT_PRESUMIDO_CONFIG
    /\ realConfig = DEFAULT_REAL_CONFIG
    /\ reformConfig = DEFAULT_REFORM_CONFIG
    /\ results = NoResults
    /\ pc = "mounted"
    /\ edits = 0
    /\ NewSession

\* The initialization effect for a new simulation.  recalcTotals copies
\* the imported data, which editableData still equals in every field
\* recalcTotals keeps.
InitEffect ==
    /\ pc = "mounted"
    /\ LET initialLines == InitialLines(originalLines)
       IN /\ displayLines' = initialLines
          /\ editableData' = recalcTotals(editableData, initialLines)
    /\ pc' = "input"
    /\ UNCHANGED <<activityType, presumidoConfig, realConfig, reformConfig,
                   results, edits>>
    /\ UNCHANGED sessionVars

handleLineChange(index, field, value) ==
    LET newLines == [displayLines EXCEPT ![index] = [@ EXCEPT ![field] = value]]
    IN /\ displayLines' = newLines
       /\ editableData' = IF TriggersRecalc(field)
                          THEN recalcTotals(editableData, newLines)
                          ELSE editableData

\* One change event of the statement table.
LineChange ==
    /\ pc = "input"
    /\ edits < MaxEdits
    /\ \E index \in 1..Len(displayLines), field \in DOMAIN FieldValues :
          \E value \in FieldValues[field] :
             handleLineChange(index, field, value)
    /\ edits' = edits + 1
    /\ UNCHANGED <<activityType, presumidoConfig, realConfig, reformConfig,
                   results, pc>>
    /\ UNCHANGED sessionVars

\* The options of the "Simples Nacional" select, in the order rendered.
AnnexOptions(category) ==
    IF category = "ICMS" THEN <<"COMERCIO", "INDUSTRIA">>
    ELSE <<"SERVICO_ANEXO_III", "SERVICO_ANEXO_IV", "SERVICO_ANEXO_V">>

\* The option the select shows: the one whose value is activityType, or the
\* first option when no option has that value.
ShownOption(category, activity) ==
    IF \E i \in DOMAIN AnnexOptions(category) :
          AnnexOptions(category)[i] = activity
    THEN activity
    ELSE AnnexOptions(category)[1]

\* A click on "Servicos" or on "Comercio/Ind.": setTaxCategory only.
SetTaxCategory ==
    /\ pc = "input"
    /\ edits < MaxEdits
    /\ \E category \in {"ISS", "ICMS"} : taxCategory' = category
    /\ edits' = edits + 1
    /\ UNCHANGED <<editableData, displayLines, activityType, presumidoConfig,
                   realConfig, reformConfig, results, pc>>
    /\ UNCHANGED <<originalLines, simId, simName, showSaveModal, saves,
                   simulations, app>>

\* A change event of the select: the user picks an option other than the
\* one shown.
SetActivityType ==
    /\ pc = "input"
    /\ edits < MaxEdits
    /\ \E i \in DOMAIN AnnexOptions(taxCategory) :
          /\ AnnexOptions(taxCategory)[i] # ShownOption(taxCategory, activityType)
          /\ activityType' = AnnexOptions(taxCategory)[i]
    /\ edits' = edits + 1
    /\ UNCHANGED <<editableData, displayLines, presumidoConfig,
                   realConfig, reformConfig, results, pc>>
    /\ UNCHANGED sessionVars

NextDashboard == InitEffect \/ LineChange \/ SetTaxCategory \/ SetActivityType

SpecDashboard == InitDashboard /\ [][NextDashboard]_vars

----------------------------------------------------------------------------
(* Dashboard: saving the simulation *)

\* Calls of storageService.save followed in one session.
MaxSaves == 3

\* The names typed in the save dialog.
SimNames == {"", "Plano"}

\* const isNew = !id || id.length < 30: the local id is a timestamp of 13
\* characters, the ids of the table are UUIDs of 36.
IsNew(id) == id = LocalId

\* The Dashboard of a new simulation after its initialization effect.
InitSave ==
    /\ originalLines \in {s \in ImportedStatements : Len(s) = 2}
    /\ displayLines = InitialLines(originalLines)
    /\ editableData =
          recalcTotals(FinancialData(0, 0, 0, 0, 0, 0, 0, Undefined),
                       InitialLines(originalLines))
    /\ activityType = "SERVICO_ANEXO_III"
    /\ taxCategory = "ISS"
    /\ presumidoConfig = DEFAULT_PRESUMIDO_CONFIG
    /\ realConfig = DEFAULT_REAL_CONFIG
    /\ reformConfig = DEFAULT_REFORM_CONFIG
    /\ results = NoResults
    /\ pc = "input"
    /\ edits = 0
    /\ NewSession

\* What the save handlers leave alone.
simulationVars ==
    <<editableData, displayLines, activityType, presumidoConfig, realConfig,
      reformConfig, results, pc, edits, originalLines, taxCategory, app>>

\* handleSaveSimulation past its first test: newSim is built from the state
\* of this render and storageService.save(newSim) is called.  The
\* continuation keeps the showSaveModal of this render.
CallSave(isSilent) ==
    /\ Len(saves) < MaxSaves
    /\ saves' = Append(saves, [id |-> simId, isSilent |-> isSilent,
                               showSaveModal |-> showSaveModal,
                               step |-> "sent", savedId |-> LocalId])

\* "Confirmar Dados" and "Calcular Simulacao": handleSaveSimulation(true).
\* The open save dialog covers these buttons.
SaveSilent ==
    /\ ~showSaveModal
    /\ CallSave(TRUE)
    /\ UNCHANGED <<simId, simName, showSaveModal, simulations>>
    /\ UNCHANGED simulationVars

\* "Salvar", "Salvar Resultado" and the "Salvar" of the dialog:
\* handleSaveSimulation(false).
SaveExplicit ==
    /\ IF simName = ""
       THEN /\ showSaveModal' = TRUE
            /\ UNCHANGED saves
       ELSE /\ CallSave(FALSE)
            /\ UNCHANGED showSaveModal
    /\ UNCHANGED <<simId, simName, simulations>>
    /\ UNCHANGED simulationVars

\* The name field of the dialog: setSimName.
TypeName ==
    /\ showSaveModal
    /\ \E name \in SimNames : simName' = name
    /\ UNCHANGED <<simId, showSaveModal, saves, simulations>>
    /\ UNCHANGED simulationVars

\* "Cancelar" of the dialog.
CancelSave ==
    /\ showSaveModal
    /\ showSaveModal' = FALSE
    /\ UNCHANGED <<simId, simName, saves, simulations>>
    /\ UNCHANGED simulationVars

\* insert(upsertData).select('id').single(): the table gives the new row an
\* id of its own.  The rows after the insert; the new row is the one added.
Insert(rows, id) == rows \cup {Cardinality(rows) + 1}

\* storageService.save reaches the table: an update of the row of this id,
\* or an insert.
SaveWrite ==
    /\ \E i \in 1..Len(saves) :
          /\ saves[i].step = "sent"
          /\ IF IsNew(saves[i].id)
             THEN /\ simulations' = Insert(simulations, saves[i].id)
                  /\ saves' = [saves EXCEPT
                                  ![i].step = "written",
                                  ![i].savedId =
                                     CHOOSE id \in simulations' :
                                        id \notin simulations]
             ELSE /\ simulations' = simulations
                  /\ saves' = [saves EXCEPT ![i].step = "written",
                                            ![i].savedId = saves[i].id]
    /\ UNCHANGED <<simId, simName, showSaveModal>>
    /\ UNCHANGED simulationVars

\* The promise of storageService.save resolves: setSimId(savedId), and the
\* dialog is closed if it was open when the save was called.
SaveReturn ==
    /\ \E i \in 1..Len(saves) :
          /\ saves[i].step = "written"
          /\ simId' = saves[i].savedId
          /\ showSaveModal' = (IF saves[i].showSaveModal THEN FALSE
                               ELSE showSaveModal)
          /\ saves' = [saves EXCEPT ![i].step = "done"]
    /\ UNCHANGED <<simName, simulations>>
    /\ UNCHANGED simulationVars

\* storageService.save throws (no user, or an error of the table): the
\* catch logs it and nothing is set.
SaveFail ==
    /\ \E i \in 1..Len(saves) :
          /\ saves[i].step = "sent"
          /\ saves' = [saves EXCEPT ![i].step = "failed"]
    /\ UNCHANGED <<simId, simName, showSaveModal, simulations>>
    /\ UNCHANGED simulationVars

NextSave ==
    \/ SaveSilent
    \/ SaveExplicit
    \/ TypeName
    \/ CancelSave
    \/ SaveWrite
    \/ SaveReturn
    \/ SaveFail

SpecSave == InitSave /\ [][NextSave]_vars

----------------------------------------------------------------------------
(* App: authentication and routes *)

\* The accounts that sign in, and the saved simulations the home page lists.
Users == {"ana", "bia"}
SavedSimulations == {"sim1", "sim2"}

\* AppContent as constructed; MemoryRouter starts at "/".  user, financialData
\* and currentSimulationId are "null" when null.
AppStart ==
    [user |-> "null", authLoading |-> TRUE, route |-> "/",
     financialData |-> "null", currentSimulationId |-> "null",
     uploading |-> FALSE, loggingOut |-> FALSE]

\* What a route renders: a component, or <Navigate to=... />.
Element(name) == [element |-> name, to |-> ""]
Navigate(to) == [element |-> "Navigate", to |-> to]

\* Mutant of ProtectedRoute: the children rendered without a user.
ProtectedRoute_NoUserCheck(children, user, authLoading) ==
    IF authLoading THEN Element("Loading") ELSE children

ProtectedRoute(children, user, authLoading) ==
    IF authLoading THEN Element("Loading")
    ELSE IF user = "null" THEN Navigate("/login")
    ELSE children

\* <Routes>: the element of the route that matches.
Rendered(a) ==
    CASE a.route = "/login" ->
            IF a.user = "null" /\ ~a.authLoading THEN Element("AuthScreen")
            ELSE IF a.user # "null" THEN Navigate("/")
            ELSE Element("Loading")
      [] a.route = "/" ->
            ProtectedRoute(Element("HomePage"), a.user, a.authLoading)
      [] a.route = "/upload" ->
            ProtectedRoute(Element("FileUpload"), a.user, a.authLoading)
      [] a.route = "/dashboard" ->
            ProtectedRoute(IF a.financialData # "null"
                           THEN Element("Dashboard") ELSE Navigate("/"),
                           a.user, a.authLoading)
      [] OTHER -> Navigate("/")

\* The header with the logo and "Sair".
HeaderShown(a) == a.user # "null" /\ ~a.authLoading

\* The application starts; no Dashboard is mounted.
InitApp ==
    /\ app = AppStart
    /\ editableData = FinancialData(0, 0, 0, 0, 0, 0, 0, Undefined)
    /\ displayLines = << >>
    /\ originalLines = << >>
    /\ activityType = "SERVICO_ANEXO_III"
    /\ taxCategory = "ISS"
    /\ presumidoConfig = DEFAULT_PRESUMIDO_CONFIG
    /\ realConfig = DEFAULT_REAL_CONFIG
    /\ reformConfig = DEFAULT_REFORM_CONFIG
    /\ results = NoResults
    /\ pc = "mounted"
    /\ edits = 0
    /\ simId = LocalId
    /\ simName = ""
    /\ showSaveModal = FALSE
    /\ saves = << >>
    /\ simulations = {}

\* What the handlers of AppContent leave alone.
dashboardVars ==
    <<editableData, displayLines, activityType, presumidoConfig, realConfig,
      reformConfig, results, pc, edits, originalLines, taxCategory, simId,
      simName, showSaveModal, saves, simulations>>

\* The callback of authService.subscribe: the initial user, a sign-in, a
\* sign-out or the end of the session.
AuthCallback ==
    /\ \E currentUser \in Users \cup {"null"} :
          app' = [app EXCEPT !.user = currentUser, !.authLoading = FALSE]
    /\ UNCHANGED dashboardVars

\* A rendered <Navigate> changes the route.
RouterRedirect ==
    /\ Rendered(app).element = "Navigate"
    /\ app' = [app EXCEPT !.route = Rendered(app).to]
    /\ UNCHANGED dashboardVars

\* onNewSimulation of the home page.
NewSimulation ==
    /\ Rendered(app).element = "HomePage"
    /\ app' = [app EXCEPT !.route = "/upload"]
    /\ UNCHANGED dashboardVars

\* The logo of the header, or "Voltar para Inicio" of the upload screen.
GoHome ==
    /\ HeaderShown(app) \/ Rendered(app).element = "FileUpload"
    /\ app' = [app EXCEPT !.route = "/"]
    /\ UNCHANGED dashboardVars

\* FileUpload starts processing the files it was given.
StartUpload ==
    /\ Rendered(app).element = "FileUpload"
    /\ app' = [app EXCEPT !.uploading = TRUE]
    /\ UNCHANGED dashboardVars

\* The processing ends and FileUpload calls onDataLoaded, whatever is on
\* screen by then.
handleDataLoaded ==
    /\ app.uploading
    /\ app' = [app EXCEPT !.financialData = "imported",
                          !.currentSimulationId = "null",
                          !.route = "/dashboard",
                          !.uploading = FALSE]
    /\ UNCHANGED dashboardVars

\* onLoadSimulation of the home page.
loadSimulation ==
    /\ Rendered(app).element = "HomePage"
    /\ \E sim \in SavedSimulations :
          app' = [app EXCEPT !.financialData = "saved",
                            !.currentSimulationId = sim,
                            !.route = "/dashboard"]
    /\ UNCHANGED dashboardVars

\* onReset of the Dashboard.
handleReset ==
    /\ Rendered(app).element = "Dashboard"
    /\ app' = [app EXCEPT !.financialData = "null",
                          !.currentSimulationId = "null",
                          !.route = "/"]
    /\ UNCHANGED dashboardVars

\* "Sair": handleLogout up to its await.
LogoutStart ==
    /\ HeaderShown(app)
    /\ app' = [app EXCEPT !.loggingOut = TRUE]
    /\ UNCHANGED dashboardVars

\* authService.logout returns after window.location.reload(): handleReset
\* runs and the page starts again.
LogoutFinish ==
    /\ app.loggingOut
    /\ app' = AppStart
    /\ UNCHANGED dashboardVars

NextApp ==
    \/ AuthCallback
    \/ RouterRedirect
    \/ NewSimulation
    \/ GoHome
    \/ StartUpload
    \/ handleDataLoaded
    \/ loadSimulation
    \/ handleReset
    \/ LogoutStart
    \/ LogoutFinish

SpecApp == InitApp /\ [][NextApp]_vars

----------------------------------------------------------------------------
(* Properties *)

Done == pc = "done"

\* The three current results in the order the useMemo lists them.
Current == <<results.simples, results.presumido, results.real>>

\* Positions in Current of the results that are not blocked.
NotBlocked == {i \in 1..3 : ~Current[i].isBlocked}

\* Positions of the non-blocked results of lowest totalTax.
Lowest ==
    {i \in NotBlocked : \A j \in NotBlocked :
        Current[i].totalTax <= Current[j].totalTax}

\* C1: the baseline (bestCurrent) is one of the three current results, is not
\* blocked, and no non-blocked result has a lower totalTax; a blocked Simples
\* is left out of the comparison although its totalTax is 0.
C1_BaselineIsLowestNonBlocked ==
    Done =>
        /\ \E i \in NotBlocked : results.bestCurrent = Current[i]
        /\ ~results.bestCurrent.isBlocked
        /\ \A i \in NotBlocked :
              results.bestCurrent.totalTax <= Current[i].totalTax
        /\ results.allCurrent = [i \in 1..Cardinality(NotBlocked) |->
              Current[CHOOSE k \in NotBlocked :
                  Cardinality({j \in NotBlocked : j < k}) = i - 1].regime]

\* C1 witness: Simples blocked, Real cheaper than Presumido, Real selected.
C1_Witness ==
    /\ Done
    /\ results.simples.isBlocked
    /\ results.real.totalTax < results.presumido.totalTax
    /\ results.bestCurrent.regime = "Lucro Real"

\* C2 as stated: when several non-blocked results share the lowest totalTax,
\* the baseline is the first of them in the order Simples, Presumido, Real.
C2_TieKeepsFirst ==
    (Done /\ Cardinality(Lowest) >= 2) =>
        results.bestCurrent.regime =
            Current[CHOOSE i \in Lowest : \A j \in Lowest : i <= j].regime

\* C2 amended: when several non-blocked results share the lowest totalTax,
\* the baseline is the last of them in the order Simples, Presumido, Real.
C2_TieKeepsLast ==
    (Done /\ Cardinality(Lowest) >= 2) =>
        results.bestCurrent.regime =
            Current[CHOOSE i \in Lowest : \A j \in Lowest : i >= j].regime

\* C2 witness: Simples and Presumido tie below Real, and Presumido is selected.
C2_Witness ==
    /\ Done
    /\ Lowest = {1, 2}
    /\ results.simples.totalTax > 0
    /\ results.bestCurrent.regime = "Lucro Presumido"

\* A quotient that is the number 0.
IsZero(q) == q.kind = "finite" /\ q.num = 0

\* C3 as stated: with annual revenue zero or negative, the effectiveRate
\* returned by each of the four calculators is 0.
C3_EffectiveRateZeroWithoutRevenue ==
    (Done /\ editableData.revenueAnnual <= 0) =>
        /\ IsZero(results.simples.effectiveRate)
        /\ IsZero(results.presumido.effectiveRate)
        /\ IsZero(results.real.effectiveRate)
        /\ IsZero(results.reform.effectiveRate)

\* C4: calculateSimples returns isBlocked exactly when the revenue is above
\* 4,800,000; a blocked result has totalTax 0, every breakdown and detailed
\* amount 0 and one note.
C4_BlockedAboveCeiling ==
    Done =>
        /\ results.simples.isBlocked
              <=> editableData.revenueAnnual > Reais(4800000)
        /\ results.simples.isBlocked =>
              /\ results.simples.totalTax = 0
              /\ \A f \in DOMAIN results.simples.breakdown :
                    results.simples.breakdown[f] = 0
              /\ \A f \in DOMAIN results.simples.detailed :
                    results.simples.detailed[f] = 0
              /\ Len(results.simples.notes) = 1

\* C4 witness: a blocked result, one unit above the ceiling.
C4_Witness ==
    /\ Done
    /\ editableData.revenueAnnual = Reais(4810000)
    /\ results.simples.isBlocked

\* The annex table named by the first detail line of a Simples result.
AnnexNamed(name) ==
    CHOOSE a \in {ANEXO_I, ANEXO_II, ANEXO_III, ANEXO_IV, ANEXO_V} :
        a.name = name

\* C5: for a non-blocked revenue the range used is the first of the annex whose
\* limit is at least the revenue (a revenue equal to a limit uses that range,
\* one unit above it the next one), and the DAS is computed from that range.
C5_RangeIsFirstCovering ==
    (Done /\ ~results.simples.isBlocked) =>
        LET rev == editableData.revenueAnnual
            ranges == AnnexNamed(results.simples.details[1].label).ranges
            idx == results.simples.rangeIndex
        IN /\ idx \in 1..Len(ranges)
           /\ rev <= ranges[idx].limit
           /\ \A j \in 1..(idx - 1) : ranges[j].limit < rev
           /\ rev > 0 => results.simples.detailed.simplesDAS =
                 Pct(rev, ranges[idx].aliquota) - ranges[idx].deducao

\* C5 witness: a revenue equal to the limit of the second range uses it.
C5_Witness ==
    /\ Done
    /\ editableData.revenueAnnual = Reais(360000)
    /\ results.simples.rangeIndex = 2

C7_ReformTotal ==
    Done =>
        results.reform.totalTax =
            results.reform.detailed.ibs + results.reform.detailed.cbs
                + results.reform.detailed.selectiveTax
                + results.bestCurrent.breakdown.taxIncome
                + results.bestCurrent.breakdown.taxPayroll
                + results.bestCurrent.breakdown.charges

\* C7 witness: every term of the sum is positive.
C7_Witness ==
    /\ Done
    /\ results.reform.detailed.ibs > 0
    /\ results.reform.detailed.cbs > 0
    /\ results.reform.detailed.selectiveTax > 0
    /\ results.bestCurrent.breakdown.taxIncome > 0
    /\ results.bestCurrent.breakdown.taxPayroll > 0
    /\ results.bestCurrent.breakdown.charges > 0

\* The credit C8 gives a line at a rate: |value| * p/100 * rate/100 for an
\* ANALYTICAL line tagged CUSTO or DESPESA with a percentage p > 0, else 0.
C8_LineCredit(line, rate) ==
    IF /\ line.lineType = "ANALYTICAL"
       /\ line.tag \in {"CUSTO", "DESPESA"}
       /\ line.reformCreditRate # << >>
       /\ line.reformCreditRate[1] > 0
    THEN Pct(Pct(Abs(line.value), line.reformCreditRate[1] * 100), rate)
    ELSE 0

RECURSIVE C8_SumCredit(_, _, _)
C8_SumCredit(lines, n, rate) ==
    IF n = 0 THEN 0
    ELSE C8_SumCredit(lines, n - 1, rate) + C8_LineCredit(lines[n], rate)

\* C8: the IBS and the CBS credit are the sums, over the lines, of the credit
\* of each line; a line at 100% gives |value| * rate and one at 0% nothing;
\* one DESPESA line of -100,000 at 50% with rates 17.5% and 9.0% gives
\* 8,750 and 4,500.
C8_ReformCredits ==
    Done =>
        /\ results.reform.creditIBS
              = C8_SumCredit(displayLines, Len(displayLines), reformConfig.ibsRate)
        /\ results.reform.creditCBS
              = C8_SumCredit(displayLines, Len(displayLines), reformConfig.cbsRate)
        /\ ( /\ displayLines = <<Line(Reais(-100000), "ANALYTICAL", "DESPESA",
                                       Some(50), "null")>>
             /\ reformConfig.ibsRate = 1750
             /\ reformConfig.cbsRate = 900 )
              => /\ results.reform.creditIBS = Reais(8750)
                 /\ results.reform.creditCBS = Reais(4500)

\* C8 witness: the example's statement, its credits taken.
C8_Witness ==
    /\ Done
    /\ displayLines = <<Line(Reais(-100000), "ANALYTICAL", "DESPESA",
                             Some(50), "null")>>
    /\ reformConfig = DEFAULT_REFORM_CONFIG
    /\ results.reform.creditIBS = Reais(8750)
    /\ results.reform.creditCBS = Reais(4500)

\* C9: each leg's payable is max(0, debit - credit), the total IVA is the sum
\* of the two payables and the selective tax, and none of them is negative.
C9_ReformNetting ==
    Done =>
        /\ results.reform.detailed.ibs =
              MathMax(0, results.reform.debitIBS - results.reform.creditIBS)
        /\ results.reform.detailed.cbs =
              MathMax(0, results.reform.debitCBS - results.reform.creditCBS)
        /\ results.reform.breakdown.taxSales =
              results.reform.detailed.ibs + results.reform.detailed.cbs
                  + results.reform.detailed.selectiveTax
        /\ results.reform.breakdown.taxSales >= 0

\* C9 witness: the CBS credit exceeds the CBS debit, and the total IVA is the
\* selective tax, undiminished.
C9_Witness ==
    /\ Done
    /\ results.reform.creditCBS > results.reform.debitCBS
    /\ results.reform.detailed.cbs = 0
    /\ results.reform.detailed.selectiveTax > 0
    /\ results.reform.breakdown.taxSales
          = results.reform.detailed.selectiveTax

\* C10: the PIS and COFINS payable of calculateReal are never negative, and
\* both are zero when the credit base equals revenue minus deductions.
C10_RealPisCofinsFloor ==
    Done =>
        /\ results.real.detailed.pis >= 0
        /\ results.real.detailed.cofins >= 0
        /\ ( /\ editableData.realCreditBase # << >>
             /\ editableData.realCreditBase[1]
                   = editableData.revenueAnnual - editableData.deductions )
              => /\ results.real.detailed.pis = 0
                 /\ results.real.detailed.cofins = 0

\* C10 witness: a credit base equal to a positive revenue minus deductions,
\* nothing payable.
C10_Witness ==
    /\ Done
    /\ editableData.deductions > 0
    /\ editableData.revenueAnnual > editableData.deductions
    /\ editableData.realCreditBase
          = <<editableData.revenueAnnual - editableData.deductions>>
    /\ results.real.detailed.pis = 0
    /\ results.real.detailed.cofins = 0

\* C11: calculateReal takes an explicit realCreditBase, zero included, as the
\* base of the PIS/COFINS credits; only without one is the base the cost of
\* goods (COMERCIO, INDUSTRIA) or 20% of the expenses (services).
C11_CreditBaseChoice ==
    Done =>
        LET d == editableData
            revenueBase == MathMax(0, d.revenueAnnual - d.deductions)
            base == IF d.realCreditBase # << >>
                    THEN d.realCreditBase[1]
                    ELSE IF activityType \in {"COMERCIO", "INDUSTRIA"}
                         THEN d.cogs
                         ELSE Pct(d.expenses, 2000)
        IN /\ results.real.detailed.pis
                = MathMax(0, Pct(revenueBase, realConfig.pis)
                               - Pct(base, realConfig.pis))
           /\ results.real.detailed.cofins
                = MathMax(0, Pct(revenueBase, realConfig.cofins)
                               - Pct(base, realConfig.cofins))

\* C11 witness: a trading company with a cost of goods and an explicit
\* credit base of zero pays the whole PIS debit.
C11_Witness ==
    /\ Done
    /\ activityType = "COMERCIO"
    /\ editableData.realCreditBase = <<0>>
    /\ editableData.cogs > 0
    /\ results.real.detailed.pis > 0
    /\ results.real.detailed.pis
          = Pct(editableData.revenueAnnual - editableData.deductions,
                realConfig.pis)

\* The pre-tax profit of Lucro Real, rebuilt from the statement and the
\* amounts of the result.
RealProfit ==
    LET d == editableData
        t == results.real.detailed
        netRevenue == d.revenueAnnual - d.deductions
                         - (t.pis + t.cofins + t.iss + t.icms + t.ipi)
        operationalResult ==
            netRevenue - (d.cogs + d.expenses + d.payrollBase
                            + t.cpp + t.rat + t.inssTerceiros + t.fgts)
        financialResult ==
            d.financialRevenues - (t.pisFinancial + t.cofinsFinancial)
               - d.financialExpenses
    IN operationalResult + financialResult

\* The taxable income of Lucro Real: the pre-tax profit plus the additions
\* less the exclusions, floored at zero.
RealTaxableIncome ==
    MathMax(0, RealProfit + results.lalurAdjustments.additions
                  - results.lalurAdjustments.exclusions)

InNotes(r, note) == \E i \in 1..Len(r.notes) : r.notes[i] = note

\* C12: with a taxable income of zero the IRPJ, its surtax and the CSLL of
\* calculateReal are zero and the notes carry the fiscal-loss note; the
\* notes of the additions and of the exclusions are present whenever those
\* are positive, loss or not.
C12_FiscalLoss ==
    Done =>
        LET r == results.real
            adj == results.lalurAdjustments
        IN /\ RealTaxableIncome <= 0
                => /\ r.detailed.irpj = 0
                   /\ r.detailed.irpjAdicional = 0
                   /\ r.detailed.csll = 0
                   /\ r.breakdown.taxIncome = 0
                   /\ InNotes(r, "Prejuizo Fiscal projetado")
           /\ RealTaxableIncome > 0
                => ~InNotes(r, "Prejuizo Fiscal projetado")
           /\ adj.additions > 0 <=> InNotes(r, "Adicoes LALUR")
           /\ adj.exclusions > 0 <=> InNotes(r, "Exclusoes LALUR")

\* C12 witness: a loss that the additions do not cover; both notes present.
C12_Witness ==
    /\ Done
    /\ RealProfit + results.lalurAdjustments.additions < 0
    /\ results.lalurAdjustments.additions > 0
    /\ results.real.detailed.irpj = 0
    /\ results.real.detailed.csll = 0
    /\ results.real.notes = <<"Prejuizo Fiscal projetado", "Adicoes LALUR">>

\* C13: in calculatePresumido the IRPJ base is the presumed share of the
\* revenue plus the financial revenue; the basic IRPJ is the base at the
\* IRPJ rate and the surtax is the part of the base above R$ 240.000 at the
\* surtax rate: zero up to the threshold, positive above it.  The CSLL is
\* its own base at the CSLL rate, with no surtax.  A revenue of 1.000.000
\* with no financial revenue and the default rates gives a base of 320.000,
\* a basic IRPJ of 48.000 and a surtax of 8.000.
C13_PresumidoIrpj ==
    Done =>
        LET d == editableData
            c == presumidoConfig
            t == results.presumido.detailed
            base == Pct(d.revenueAnnual, c.presuncaoIRPJ) + d.financialRevenues
            baseCSLL == Pct(d.revenueAnnual, c.presuncaoCSLL)
                           + d.financialRevenues
        IN /\ t.irpj = Pct(base, c.irpj)
           /\ base <= Reais(240000) => t.irpjAdicional = 0
           /\ base > Reais(240000)
                => /\ t.irpjAdicional
                        = Pct(base - Reais(240000), c.irpjAdicional)
                   /\ c.irpjAdicional > 0 => t.irpjAdicional > 0
           /\ t.csll = Pct(baseCSLL, c.csll)
           /\ results.presumido.breakdown.taxIncome
                = t.irpj + t.irpjAdicional + t.csll
           /\ ( /\ d.revenueAnnual = Reais(1000000)
                /\ d.financialRevenues = 0
                /\ c = DEFAULT_PRESUMIDO_CONFIG )
                => /\ base = Reais(320000)
                   /\ t.irpj = Reais(48000)
                   /\ t.irpjAdicional = Reais(8000)

\* C13 witness: the example of the claim.
C13_Witness ==
    /\ Done
    /\ editableData.revenueAnnual = Reais(1000000)
    /\ editableData.financialRevenues = 0
    /\ presumidoConfig = DEFAULT_PRESUMIDO_CONFIG
    /\ results.presumido.detailed.irpj = Reais(48000)
    /\ results.presumido.detailed.irpjAdicional = Reais(8000)

\* C14: the total of calculatePresumido is IRPJ with its surtax, CSLL, PIS,
\* COFINS, IPI, ISS, ICMS, CPP, RAT, third-party contributions and FGTS,
\* each counted once; the ISS is zero for COMERCIO and INDUSTRIA and the
\* ICMS is zero for the three service activities.
C14_PresumidoTotal ==
    Done =>
        LET r == results.presumido
            t == r.detailed
            p == editableData.payrollBase
            c == presumidoConfig
        IN /\ r.totalTax = t.irpj + t.irpjAdicional + t.csll + t.pis
                              + t.cofins + t.ipi + t.iss + t.icms + t.cpp
                              + t.rat + t.inssTerceiros + t.fgts
           /\ t.cpp = Pct(p, c.cpp)
           /\ t.rat = Pct(p, c.rat)
           /\ t.inssTerceiros = Pct(p, c.inssTerceiros)
           /\ t.fgts = Pct(p, c.fgts)
           /\ activityType \in {"COMERCIO", "INDUSTRIA"} => t.iss = 0
           /\ activityType \in {"SERVICO_ANEXO_III", "SERVICO_ANEXO_IV",
                                "SERVICO_ANEXO_V"} => t.icms = 0
           /\ t.iss = 0 \/ t.icms = 0

\* C14 witness: a trading company with a payroll: ICMS and the four
\* employer charges in the total, no ISS.
C14_Witness ==
    /\ Done
    /\ activityType = "COMERCIO"
    /\ results.presumido.detailed.icms > 0
    /\ results.presumido.detailed.iss = 0
    /\ results.presumido.detailed.cpp > 0
    /\ results.presumido.detailed.rat > 0
    /\ results.presumido.detailed.inssTerceiros > 0
    /\ results.presumido.detailed.fgts > 0
    /\ results.presumido.detailed.ipi > 0

\* C20: calculateReal derives the profit in this order: net revenue is the
\* revenue less the deductions less the PIS and COFINS payable, ISS, ICMS
\* and IPI; the operating result is the net revenue less the cost of goods,
\* the expenses, the payroll and the four employer charges; the financial
\* result is the financial revenue less the PIS/COFINS on it less the
\* financial expense; the pre-tax profit, their sum, is what the income
\* taxes are charged on.  The PIS/COFINS on financial revenue is outside
\* breakdown.taxSales.
C20_RealProfitDerivation ==
    Done =>
        LET r == results.real
            t == r.detailed
            c == realConfig
        IN /\ t.irpj = Pct(RealTaxableIncome, c.irpj)
           /\ t.irpjAdicional
                = Pct(MathMax(0, RealTaxableIncome - Reais(240000)),
                      c.irpjAdicional)
           /\ t.csll = Pct(RealTaxableIncome, c.csll)
           /\ t.pisFinancial = Pct(editableData.financialRevenues,
                                   c.pisFinancial)
           /\ t.cofinsFinancial = Pct(editableData.financialRevenues,
                                      c.cofinsFinancial)
           /\ r.breakdown.taxSales
                = t.pis + t.cofins + t.iss + t.icms + t.ipi
           /\ r.totalTax = r.breakdown.taxIncome + r.breakdown.taxSales
                              + t.pisFinancial + t.cofinsFinancial
                              + r.breakdown.charges

\* C20 witness: a profitable statement with financial revenue taxed by PIS
\* and COFINS and with a financial expense.
C20_Witness ==
    /\ Done
    /\ editableData.financialExpenses > 0
    /\ results.real.detailed.pisFinancial > 0
    /\ results.real.detailed.cofinsFinancial > 0
    /\ editableData.payrollBase > 0
    /\ editableData.cogs > 0
    /\ editableData.deductions > 0
    /\ RealTaxableIncome > 0
    /\ results.real.detailed.irpj > 0

RECURSIVE SumOver(_, _)
SumOver(lines, S) ==
    IF S = {} THEN 0
    ELSE LET i == CHOOSE x \in S : TRUE
         IN Abs(lines[i].value) + SumOver(lines, S \ {i})

\* The indices of the ANALYTICAL lines with the given tag.
Tagged(lines, tag) ==
    {i \in 1..Len(lines) : lines[i].tag = tag /\ lines[i].lineType = "ANALYTICAL"}

\* The summary field of each aggregated tag.
FieldOfTag ==
    [RECEITA |-> "revenueAnnual", DEDUCAO |-> "deductions",
     IMPOSTO_VENDA |-> "taxesOnSales", IRPJ_CSLL |-> "taxesIncome",
     FOLHA |-> "payrollBase", CUSTO |-> "cogs", DESPESA |-> "expenses",
     REC_FIN |-> "financialRevenues", DESP_FIN |-> "financialExpenses"]

IsAnalytical(line) == line.lineType = "ANALYTICAL"

\* C16: each summary field recalcTotals computes (revenue, deductions, sales
\* tax, income tax, payroll, cost, expenses, financial revenue, financial
\* expense) is the sum of the absolute values of the ANALYTICAL lines with
\* the field's tag; a SYNTHETIC line changes no aggregate; every aggregate
\* is non-negative.
C16_AggregatesByTag ==
    pc = "input" =>
        LET totals == recalcTotals(editableData, displayLines)
        IN /\ \A tag \in DOMAIN FieldOfTag :
                /\ totals[FieldOfTag[tag]]
                      = SumOver(displayLines, Tagged(displayLines, tag))
                /\ totals[FieldOfTag[tag]] >= 0
           /\ totals.realCreditBase[1] >= 0
           /\ recalcTotals(editableData, SelectSeq(displayLines, IsAnalytical))
                 = totals

\* C16 witness: a group line tagged as expense beside two expense accounts;
\* only the accounts are in the expenses.
C16_Witness ==
    /\ pc = "input"
    /\ \E i, j, k \in 1..Len(displayLines) :
          /\ i # j
          /\ displayLines[k].lineType = "SYNTHETIC"
          /\ displayLines[k].tag = "DESPESA"
          /\ displayLines[k].value # 0
          /\ Tagged(displayLines, "DESPESA") = {i, j}
          /\ displayLines[i].value < 0
          /\ editableData.expenses
                = Abs(displayLines[i].value) + Abs(displayLines[j].value)

\* The lines in the order given by the permutation p of their indices.
Permuted(lines, p) == [i \in 1..Len(lines) |-> lines[p[i]]]

C19_EditableDataFollowsLines ==
    pc = "input" =>
        /\ \A tag \in DOMAIN FieldOfTag :
              editableData[FieldOfTag[tag]]
                 = SumOver(displayLines, Tagged(displayLines, tag))
        /\ editableData.realCreditBase
              = << SumOver(displayLines,
                           {i \in Tagged(displayLines, "DESPESA")
                                    \cup Tagged(displayLines, "CUSTO") :
                               displayLines[i].useForCredit}) >>

\* C19 witness: two edits later, an account marked for credit makes up the
\* credit base and a line carries a LALUR adjustment.
C19_Witness ==
    /\ pc = "input"
    /\ edits = 2
    /\ editableData.realCreditBase # <<0>>
    /\ \E i, j \in 1..Len(displayLines) :
          /\ displayLines[i].useForCredit
          /\ editableData.realCreditBase = <<Abs(displayLines[i].value)>>
          /\ displayLines[j].lalurAdjustment = "ADDITION"

C21_SimplesTotal ==
    (Done /\ ~results.simples.isBlocked) =>
        LET r == results.simples
            t == r.detailed
            d == editableData
            annex == CHOOSE a \in {ANEXO_I, ANEXO_II, ANEXO_III, ANEXO_IV,
                                   ANEXO_V} : a.name = r.details[1].label
            range == annex.ranges[r.rangeIndex]
        IN /\ r.totalTax = t.simplesDAS + t.fgts + t.cpp
           /\ t.simplesDAS = IF d.revenueAnnual > 0
                             THEN Pct(d.revenueAnnual, range.aliquota)
                                     - range.deducao
                             ELSE 0
           /\ t.fgts = Pct(d.payrollBase, 800)
           /\ t.cpp = IF activityType = "SERVICO_ANEXO_IV"
                      THEN Pct(d.payrollBase, 2780) ELSE 0
           /\ r.breakdown.taxSales = t.simplesDAS
           /\ r.breakdown.taxPayroll = t.cpp
           /\ r.breakdown.charges = t.fgts + t.cpp

\* C21 witness: qualified services with a payroll, moved to Anexo III by
\* the Factor R: DAS and FGTS, no separate CPP.
C21_Witness ==
    /\ Done
    /\ activityType = "SERVICO_ANEXO_V"
    /\ results.simples.details # << >>
    /\ results.simples.details[1].label = ANEXO_III.name
    /\ editableData.payrollBase > 0
    /\ results.simples.detailed.cpp = 0
    /\ results.simples.detailed.fgts > 0
    /\ results.simples.detailed.simplesDAS > 0
    /\ results.simples.totalTax
          = results.simples.detailed.simplesDAS + results.simples.detailed.fgts

\* An amount in hundreds of reais (the amounts of the model are whole
\* hundreds).
Hundreds(v) == v \div 10000

\* C22: for SERVICO_ANEXO_V the annex is Anexo III when payroll * 1,1911 /
\* revenue is at least 0,28, the value 0,28 included, and Anexo V
\* otherwise, also when the revenue is not positive; COMERCIO, INDUSTRIA,
\* SERVICO_ANEXO_III and SERVICO_ANEXO_IV use Anexo I, II, III and IV
\* whatever the payroll.  The note of the Factor R goes with the move.
C22_FactorR ==
    (Done /\ ~results.simples.isBlocked) =>
        LET d == editableData
            reached == /\ d.revenueAnnual > 0
                       /\ Hundreds(d.payrollBase) * 11911
                             >= Hundreds(d.revenueAnnual) * 2800
            expected ==
                CASE activityType = "COMERCIO" -> ANEXO_I.name
                  [] activityType = "INDUSTRIA" -> ANEXO_II.name
                  [] activityType = "SERVICO_ANEXO_III" -> ANEXO_III.name
                  [] activityType = "SERVICO_ANEXO_IV" -> ANEXO_IV.name
                  [] activityType = "SERVICO_ANEXO_V" ->
                        IF reached THEN ANEXO_III.name ELSE ANEXO_V.name
        IN /\ results.simples.details[1].label = expected
           /\ results.simples.notes
                 = IF activityType = "SERVICO_ANEXO_V" /\ reached
                   THEN <<"Enquadrado no Anexo III pelo Fator R">>
                   ELSE << >>

\* C22 witness: qualified services with a Factor R of exactly 0,28, in
\* Anexo III.
C22_Witness ==
    /\ Done
    /\ activityType = "SERVICO_ANEXO_V"
    /\ editableData.revenueAnnual > 0
    /\ Hundreds(editableData.payrollBase) * 11911
          = Hundreds(editableData.revenueAnnual) * 2800
    /\ results.simples.details[1].label = ANEXO_III.name

IsNotOutros(line) == line.tag # "OUTROS"

C24_BaselineNeverBlocked ==
    Done =>
        /\ ~results.presumido.isBlocked
        /\ ~results.real.isBlocked
        /\ Len(results.allCurrent) >= 2
        /\ ~results.bestCurrent.isBlocked
        /\ \E i \in 1..Len(results.allCurrent) :
              results.allCurrent[i] = results.bestCurrent.regime

\* C24 witness: Simples blocked; the baseline is one of the other two.
C24_Witness ==
    /\ Done
    /\ results.simples.isBlocked
    /\ results.allCurrent = <<"Lucro Presumido", "Lucro Real">>
    /\ results.bestCurrent.regime \in {"Lucro Presumido", "Lucro Real"}
    /\ ~results.bestCurrent.isBlocked

\* C25: the reform projection changes only the consumption taxes: when the
\* baseline is a Lucro Presumido result, the reform total less its total
\* VAT equals the baseline total less the baseline's sales taxes (the
\* employer contribution, present in both breakdown.taxPayroll and
\* breakdown.charges, is counted once).
C25_ReformChangesOnlyConsumptionTaxes ==
    (Done /\ results.bestCurrent.regime = "Lucro Presumido") =>
        results.reform.totalTax - results.reform.breakdown.taxSales
           = results.bestCurrent.totalTax
                - results.bestCurrent.breakdown.taxSales

\* The DAS of a revenue under the table of an annex.
DasOf(annex, revenue) ==
    DasTax(revenue, annex.ranges[FindRange(annex.ranges, revenue)])

\* C26: under every annex table the DAS of calculateSimples is never
\* negative and never falls when the revenue rises within 0..4.800.000,
\* the limits of the ranges included.
C26_DasMonotone ==
    (Done /\ ~results.simples.isBlocked) =>
        LET annex == CHOOSE a \in {ANEXO_I, ANEXO_II, ANEXO_III, ANEXO_IV,
                                   ANEXO_V} :
                        a.name = results.simples.details[1].label
            das == results.simples.detailed.simplesDAS
        IN /\ das >= 0
           /\ \A r1 \in RevenuePoints :
                 r1 <= editableData.revenueAnnual => DasOf(annex, r1) <= das

\* The standard credit rates compared.
StandardCreditRates == {0, 5000, 10000}

\* The line has a credit percentage of its own, other than zero.
HasCreditRate(line) ==
    line.reformCreditRate # Undefined /\ ValueOf(line.reformCreditRate) # 0

C28_CategoryAgreesWithActivity ==
    /\ taxCategory = "ICMS" => IsComercioIndustria(activityType)
    /\ taxCategory = "ISS" => ~IsComercioIndustria(activityType)

\* C29: one session of a new simulation leaves at most one row in the
\* table, however the calls of save interleave with the completion of
\* earlier ones.
C29_AtMostOneRecord == Cardinality(simulations) <= 1

\* C30: the home page, the upload screen and the Dashboard are on screen
\* only when the authentication check has finished and a user is signed
\* in, the Dashboard only with financial data; otherwise the application
\* shows the loading indicator or the sign-in screen, or redirects to
\* /login, or to / when the data is missing.
C30_RouteProtection ==
    LET shown == Rendered(app)
    IN /\ shown.element \in {"HomePage", "FileUpload", "Dashboard"} =>
             ~app.authLoading /\ app.user # "null"
       /\ shown.element = "Dashboard" => app.financialData # "null"
       /\ ~(~app.authLoading /\ app.user # "null") =>
             \/ shown.element \in {"Loading", "AuthScreen"}
             \/ shown = Navigate("/login")
       /\ (~app.authLoading /\ app.user # "null"
             /\ app.route = "/dashboard" /\ app.financialData = "null") =>
             shown = Navigate("/")

\* The session ends while the Dashboard is on screen with data: the route
\* redirects to /login.
C30_Witness ==
    /\ app.route = "/dashboard"
    /\ app.financialData # "null"
    /\ app.user = "null"
    /\ ~app.authLoading
    /\ Rendered(app) = Navigate("/login")

====
